---- MODULE Spec2Model ----
(***************************************************************************)
(* BondMCP JavaScript client: the request executor (makeRequest,           *)
(* handleError, sleep), the constructor's configuration defaults and the   *)
(* credential update (setApiKey), with the HTTP transport (axios) as the   *)
(* environment that settles each attempt with a payload or an AxiosError.  *)
(*                                                                         *)
(* JavaScript values that may be undefined or NaN are tagged records:      *)
(* Undefined, NaN, Num(n), Str(s); a string the code parses is a sequence  *)
(* of one-character strings, Chars(<<"4", "2">>).                          *)
(***************************************************************************)
EXTENDS Integers, Sequences, FiniteSets, TLC

\* ---------------------------------------------------------------- bounds
NCalls == 2
MaxSuppliedRetries == 2
MaxSetKey == 1
MaxEdits == 1
MaxPairRetries == 2
MaxRuns == 3

\* ------------------------------------------------------ program constants
DefaultTimeout == 30000
DefaultMaxRetries == 3
DefaultRetryDelay == 1000

Undefined == [undef |-> TRUE]
NaN == [nan |-> TRUE]
Num(n) == [num |-> n]
Str(s) == [str |-> s]
Chars(cs) == [chars |-> cs]

Calls == 1 .. NCalls

\* ------------------------------------------------------- JavaScript values
\* Falsy values of the `||` and `&&` operators: undefined, NaN, 0, ''.
Truthy(v) == v \notin {Undefined, NaN, Num(0), Str(""), Chars(<<>>)}

\* a || b
Or(a, b) == IF Truthy(a) THEN a ELSE b

RECURSIVE Pow(_, _)
\* Math.pow(b, e) for a natural exponent
Pow(b, e) == IF e = 0 THEN 1 ELSE b * Pow(b, e - 1)

\* a * b on numbers that may be NaN
Times(a, b) == IF a = NaN \/ b = NaN THEN NaN ELSE Num(a.num * b.num)

DigitChars == {"0", "1", "2", "3", "4", "5", "6", "7", "8", "9"}

DigitVal(ch) ==
  CASE ch = "0" -> 0 [] ch = "1" -> 1 [] ch = "2" -> 2 [] ch = "3" -> 3
    [] ch = "4" -> 4 [] ch = "5" -> 5 [] ch = "6" -> 6 [] ch = "7" -> 7
    [] ch = "8" -> 8 [] ch = "9" -> 9

RECURSIVE StripLeadingSpace(_)
StripLeadingSpace(s) ==
  IF s # <<>> /\ Head(s) = " " THEN StripLeadingSpace(Tail(s)) ELSE s

RECURSIVE DigitPrefix(_)
\* the longest prefix of s made of decimal digits
DigitPrefix(s) ==
  IF s # <<>> /\ Head(s) \in DigitChars
    THEN <<Head(s)>> \o DigitPrefix(Tail(s))
    ELSE <<>>

RECURSIVE DigitsValue(_, _)
DigitsValue(s, acc) ==
  IF s = <<>> THEN acc ELSE DigitsValue(Tail(s), 10 * acc + DigitVal(Head(s)))

\* parseInt(s): leading white space is skipped, an optional sign is read,
\* then the longest run of decimal digits; NaN when that run is empty.
\* Whatever follows the digits is ignored.
ParseInt(s) ==
  LET t    == StripLeadingSpace(s.chars)
      neg  == t # <<>> /\ Head(t) = "-"
      body == IF t # <<>> /\ Head(t) \in {"-", "+"} THEN Tail(t) ELSE t
      ds   == DigitPrefix(body)
  IN  IF ds = <<>> THEN NaN
      ELSE IF neg THEN Num(0 - DigitsValue(ds, 0)) ELSE Num(DigitsValue(ds, 0))

\* `Bearer ${apiKey}`
Bearer(apiKey) == [bearer |-> apiKey.str]

\* `HTTP ${status}`
HttpMessage(status) == [http |-> status]

\* --------------------------------------------------------- error taxonomy
ErrorKinds ==
  {"BondMCPError", "AuthenticationError", "AuthorizationError",
   "NotFoundError", "ValidationError", "RateLimitError", "ServerError",
   "NetworkError", "TimeoutError", "ConfigurationError"}

\* new BondMCPError(message, statusCode, responseData) and its subclasses
\* other than RateLimitError
MkError(kind, message, statusCode, responseData) ==
  [kind |-> kind, message |-> message, statusCode |-> statusCode,
   responseData |-> responseData, retryAfter |-> Undefined]

\* new RateLimitError(message, retryAfter, statusCode, responseData)
MkRateLimitError(message, retryAfter, statusCode, responseData) ==
  [kind |-> "RateLimitError", message |-> message, statusCode |-> statusCode,
   responseData |-> responseData, retryAfter |-> retryAfter]

\* ---------------------------------------------- the transport's outcomes
\* Response bodies: none, an object without `message`, an object with an
\* empty `message`, an object with a non-empty `message`.
NoMessageBody == [error |-> "e"]
Bodies ==
  {Undefined, NoMessageBody, [message |-> ""], [message |-> "not found"]}

\* Mutant of BodyMessage: the body's `error` field is read
BodyMessage_ErrorField(data) ==
  IF data = Undefined THEN Undefined
  ELSE IF "error" \in DOMAIN data THEN Str(data.error) ELSE Undefined

\* (data as any)?.message
BodyMessage(data) ==
  IF data = Undefined THEN Undefined
  ELSE IF "message" \in DOMAIN data THEN Str(data.message) ELSE Undefined

\* Status codes for which the transport rejects the request
Statuses == {302, 400, 401, 403, 404, 422, 429, 500, 503}

\* Values of the Retry-After response header (undefined: header absent)
RetryAfterHeaders ==
  {Undefined} \cup
  {Chars(cs) : cs \in {<<>>, <<"0">>, <<"2">>, <<" ", "0", "2">>, <<"a", "b">>,
                       <<"2", ".", "5">>, <<"-", "1">>}}

\* Error codes of a rejection that carries no response
NoResponseCodes ==
  {"ECONNABORTED", "ETIMEDOUT", "ECONNREFUSED", "ENOTFOUND", "ERR_NETWORK"}

\* AxiosError of a rejection without a response
NoResponseErrors ==
  {[ok |-> FALSE, code |-> c, message |-> "m", response |-> Undefined] :
     c \in NoResponseCodes}

\* AxiosError of a rejection by status: the code is ERR_BAD_REQUEST for a
\* 4xx status, ERR_BAD_RESPONSE for a 5xx status and unset otherwise, and the
\* response is attached.
StatusError(s, d, h) ==
  [ok |-> FALSE,
   code |-> IF s >= 400 /\ s < 500 THEN "ERR_BAD_REQUEST"
            ELSE IF s >= 500 THEN "ERR_BAD_RESPONSE" ELSE "",
   message |-> "m",
   response |-> [status |-> s, data |-> d, retryAfterHeader |-> h]]

\* Statuses whose rejections are explored with every body
BodyStatuses == {404, 429, 500}

ResponseErrors ==
  {StatusError(s, NoMessageBody, Undefined) : s \in Statuses}
    \cup {StatusError(s, d, Undefined) : s \in BodyStatuses, d \in Bodies}
    \cup {StatusError(429, NoMessageBody, h) : h \in RetryAfterHeaders}

Payloads == {"payload"}

Successes == {[ok |-> TRUE, data |-> p] : p \in Payloads}

Outcomes == Successes \cup NoResponseErrors \cup ResponseErrors

\* ------------------------------------------------------------ handleError
\* Template strings `Request timed out: ${m}` and `Network error: ${m}`
TimedOutMessage(m) == [prefix |-> "Request timed out: ", text |-> m]
NetworkMessage(m) == [prefix |-> "Network error: ", text |-> m]

\* parseInt(error.response.headers['retry-after'] || '0') * 1000
ParseRetryAfter(header) ==
  Times(ParseInt(Or(header, Chars(<<"0">>))), Num(1000))

\* Mutant of StatusKind: status 500 itself is not taken for a server error
StatusKind_Above500(status) ==
  CASE status = 401 -> "AuthenticationError"
    [] status = 403 -> "AuthorizationError"
    [] status = 404 -> "NotFoundError"
    [] status = 422 -> "ValidationError"
    [] status = 429 -> "RateLimitError"
    [] OTHER -> IF status > 500 THEN "ServerError" ELSE "BondMCPError"

\* The switch on the response status: the error class constructed
StatusKind(status) ==
  CASE status = 401 -> "AuthenticationError"
    [] status = 403 -> "AuthorizationError"
    [] status = 404 -> "NotFoundError"
    [] status = 422 -> "ValidationError"
    [] status = 429 -> "RateLimitError"
    [] OTHER -> IF status >= 500 THEN "ServerError" ELSE "BondMCPError"

\* Mutant of TimeoutCodes: an aborted connection is not taken for a timeout
TimeoutCodes_NoAbort == {"ETIMEDOUT"}

\* error.code === 'ECONNABORTED' || error.code === 'ETIMEDOUT'
TimeoutCodes == {"ECONNABORTED", "ETIMEDOUT"}

\* error.code === 'ECONNREFUSED' || error.code === 'ENOTFOUND'
ConnectivityCodes == {"ECONNREFUSED", "ENOTFOUND"}

\* BondMCPClient.handleError: AxiosError -> BondMCPError
handleError(error) ==
  IF error.code \in TimeoutCodes
    THEN MkError("TimeoutError", TimedOutMessage(error.message),
                 Undefined, Undefined)
  ELSE IF error.code \in ConnectivityCodes
    THEN MkError("NetworkError", NetworkMessage(error.message),
                 Undefined, Undefined)
  ELSE IF error.response = Undefined
    THEN MkError("NetworkError", NetworkMessage(error.message),
                 Undefined, Undefined)
  ELSE
    LET status       == error.response.status
        data         == error.response.data
        message      == Or(BodyMessage(data), HttpMessage(status))
        responseData == data
    IN  IF StatusKind(status) = "RateLimitError"
          THEN MkRateLimitError(message,
                                ParseRetryAfter(error.response.retryAfterHeader),
                                Num(status), responseData)
          ELSE MkError(StatusKind(status), message, Num(status), responseData)

\* ------------------------------------------------------------ constructor
\* The configuration object handed to the constructor
SuppliedKeys == {Undefined, Str("k1")}
SuppliedRetries == {Undefined} \cup {Num(n) : n \in -1 .. MaxSuppliedRetries}
SuppliedDelays == {Undefined, Num(250)}
SuppliedTimeouts == {Undefined}

\* The same with the falsy values '' and 0, for the configuration claims
AllSuppliedKeys == SuppliedKeys \cup {Str("")}
AllSuppliedDelays == SuppliedDelays \cup {Num(0)}
AllSuppliedTimeouts == {Undefined, Num(0), Num(5000)}

\* process.env.BONDMCP_API_KEY
EnvKeys == {Undefined, Str("kenv")}

\* this.config = { apiKey: config.apiKey || '', maxRetries: ... || 3, ... }
Constructor(cfg) ==
  [apiKey     |-> Or(cfg.apiKey, Str("")),
   timeout    |-> Or(cfg.timeout, Num(DefaultTimeout)).num,
   maxRetries |-> Or(cfg.maxRetries, Num(DefaultMaxRetries)).num,
   retryDelay |-> Or(cfg.retryDelay, Num(DefaultRetryDelay)).num]

\* headers of axios.create: ...(apiKey && { Authorization: `Bearer ${apiKey}` })
CreateAuthorization(cfg) ==
  IF Truthy(cfg.apiKey) THEN Bearer(cfg.apiKey) ELSE Undefined

\* Mutant of RequestAuthorization: the common default wins over the header
\* given to axios.create
RequestAuthorization_CommonFirst(instanceAuthorization, commonAuthorization) ==
  IF commonAuthorization # Undefined THEN commonAuthorization
  ELSE instanceAuthorization

\* The Authorization header of a request issued through the instance: the
\* header given to axios.create lies in defaults.headers and overrides the one
\* in defaults.headers.common (request: common, then method, then the rest).
RequestAuthorization(instanceAuthorization, commonAuthorization) ==
  IF instanceAuthorization # Undefined THEN instanceAuthorization
  ELSE commonAuthorization

\* ------------------------------------------------------------ makeRequest
\* Mutant of CatchError: the first error of the call is kept
CatchError_KeepFirst(previous, error) ==
  IF previous = Undefined THEN handleError(error) ELSE previous

\* lastError = this.handleError(error)
CatchError(previous, error) == handleError(error)

\* Mutant of StoreLastError: lastError is a field of the client, shared by
\* all calls
StoreLastError_Shared(errors, c, err) == [d \in DOMAIN errors |-> err]

\* let lastError: a local of the call; the assignment in the catch block
StoreLastError(errors, c, err) == [errors EXCEPT ![c] = err]

\* Mutant of ResponseData: the whole response is returned
ResponseData_Whole(response) == [response |-> response.data]

\* return response.data
ResponseData(response) == Str(response.data)

\* Mutant of RetryRateLimit: a retry also after the last permitted attempt
RetryRateLimit_PastBudget(err, att, cfg) ==
  err.kind = "RateLimitError" /\ att <= cfg.maxRetries

\* lastError instanceof RateLimitError && attempt < this.config.maxRetries
RetryRateLimit(err, att, cfg) ==
  err.kind = "RateLimitError" /\ att < cfg.maxRetries

\* Mutant of RetryNetwork: server errors are retried as well
RetryNetwork_AlsoServer(err, att, cfg) ==
  err.kind \in {"NetworkError", "TimeoutError", "ServerError"}
    /\ att < cfg.maxRetries

\* (lastError instanceof NetworkError || lastError instanceof TimeoutError)
\*   && attempt < this.config.maxRetries
RetryNetwork(err, att, cfg) ==
  err.kind \in {"NetworkError", "TimeoutError"} /\ att < cfg.maxRetries

\* lastError.retryAfter || this.config.retryDelay
RateLimitDelay(err, cfg) == Or(err.retryAfter, Num(cfg.retryDelay)).num

\* Mutant of BackoffDelay: the exponent is one too large
BackoffDelay_OneBased(cfg, att) == cfg.retryDelay * Pow(2, att + 1)

\* this.config.retryDelay * Math.pow(2, attempt)
BackoffDelay(cfg, att) == cfg.retryDelay * Pow(2, att)

\* Mutant of LoopCondition: one more pass of the loop
LoopCondition_OneMore(att, cfg) == att <= cfg.maxRetries + 1

\* attempt <= this.config.maxRetries
LoopCondition(att, cfg) == att <= cfg.maxRetries

\* ------------------------------------------------------------------ state
VARIABLES
  supplied,      \* the object given to the constructor
  config,        \* this.config
  instanceAuth,  \* axiosInstance.defaults.headers.Authorization
  commonAuth,    \* axiosInstance.defaults.headers.common.Authorization
  setCount,      \* number of setApiKey calls made
  pc,            \* per makeRequest call: where it stands
  attempt,       \* per call: the loop variable
  issued,        \* per call: number of HTTP attempts issued
  lastOutcome,   \* per call: how the transport settled the latest attempt
  lastError,     \* per call: the local lastError
  waits,         \* per call: the arguments of the sleeps, in order
  thrown,        \* per call: the value thrown
  result,        \* per call: the value returned
  sentAuth,      \* per call: Authorization header of the latest attempt
  firstAuth,     \* per call: Authorization header of the first attempt
  sentSetCount,  \* per call: setCount when the latest attempt was issued
  log,           \* per call: the outcomes of its attempts, when recorded
  env,           \* process.env.BONDMCP_API_KEY
  snapshot,      \* the object returned by the latest getConfig
  edits,         \* number of writes the caller made to a returned object
  invoked,       \* per call: the service operation invoked and its arguments
  requests,      \* per call: the descriptors handed to makeRequest, in order
  serviceResult, \* per call: the value the service operation returned
  hashFile,      \* content of .api_hash
  apiConfigFile, \* content of api_config.json
  openapiSpecFile, \* content of openapi_spec.json
  apiChanged,    \* the api_changed output of the latest run of the check
  fetched,       \* what the latest run of the check fetched
  runs           \* number of runs of the check started

vars ==
  <<supplied, config, instanceAuth, commonAuth, setCount, pc, attempt, issued,
    lastOutcome, lastError, waits, thrown, result, sentAuth, firstAuth,
    sentSetCount, log, env, snapshot, edits, invoked, requests, serviceResult,
    hashFile,
    apiConfigFile, openapiSpecFile, apiChanged, fetched, runs>>

clientVars == <<supplied, config, instanceAuth, commonAuth, setCount>>

callVars ==
  <<pc, attempt, issued, lastOutcome, lastError, waits, thrown, result,
    sentAuth, firstAuth, sentSetCount, log, invoked, requests, serviceResult>>

scriptVars ==
  <<hashFile, apiConfigFile, openapiSpecFile, apiChanged, fetched, runs>>

callerVars == <<env, snapshot, edits, scriptVars>>

\* Tokens given to setApiKey
Tokens == {Str(""), Str("k2")}

\* State after `new BondMCPClient(supplied)` in a process whose environment
\* is one of envs; the caller is about to make the calls of `active`.
InitFrom(active, keys, retries, delays, timeouts, envs) ==
  /\ supplied \in [apiKey : keys, maxRetries : retries, retryDelay : delays,
                   timeout : timeouts]
  /\ env \in envs
  /\ snapshot = Undefined
  /\ edits = 0
  /\ log = [c \in Calls |-> <<>>]
  /\ config = Constructor(supplied)
  /\ instanceAuth = CreateAuthorization(config)
  /\ commonAuth = Undefined
  /\ setCount = 0
  /\ pc = [c \in Calls |-> IF c \in active THEN "idle" ELSE "off"]
  /\ attempt = [c \in Calls |-> 0]
  /\ issued = [c \in Calls |-> 0]
  /\ lastOutcome = [c \in Calls |-> Undefined]
  /\ lastError = [c \in Calls |-> Undefined]
  /\ waits = [c \in Calls |-> <<>>]
  /\ thrown = [c \in Calls |-> Undefined]
  /\ result = [c \in Calls |-> Undefined]
  /\ sentAuth = [c \in Calls |-> Undefined]
  /\ firstAuth = [c \in Calls |-> Undefined]
  /\ sentSetCount = [c \in Calls |-> 0]
  /\ invoked = [c \in Calls |-> Undefined]
  /\ requests = [c \in Calls |-> <<>>]
  /\ serviceResult = [c \in Calls |-> Undefined]
  /\ hashFile = Undefined
  /\ apiConfigFile = Undefined
  /\ openapiSpecFile = Undefined
  /\ apiChanged = Undefined
  /\ fetched = Undefined
  /\ runs = 0

InitWith(active) ==
  InitFrom(active, SuppliedKeys, SuppliedRetries, SuppliedDelays,
           SuppliedTimeouts, {Undefined})

Init == InitWith({1})

\* this.axiosInstance.request({...}): the attempt leaves with the headers the
\* instance defaults yield now.
IssueRequest(c) ==
  LET auth == RequestAuthorization(instanceAuth, commonAuth)
  IN  /\ pc' = [pc EXCEPT ![c] = "awaiting"]
      /\ issued' = [issued EXCEPT ![c] = @ + 1]
      /\ sentAuth' = [sentAuth EXCEPT ![c] = auth]
      /\ firstAuth' = [firstAuth EXCEPT ![c] = IF issued[c] = 0 THEN auth ELSE @]
      /\ sentSetCount' = [sentSetCount EXCEPT ![c] = setCount]

\* The loop is left without a throw inside it: throw lastError!
ThrowAfterLoop(c) ==
  /\ pc' = [pc EXCEPT ![c] = "thrown"]
  /\ thrown' = [thrown EXCEPT ![c] = lastError[c]]
  /\ UNCHANGED <<issued, sentAuth, firstAuth, sentSetCount>>

\* makeRequest is entered: attempt = 0, the loop condition, the first request.
EnterMakeRequest(c) ==
  /\ pc[c] = "idle"
  /\ attempt' = [attempt EXCEPT ![c] = 0]
  /\ IF LoopCondition(0, config)
       THEN IssueRequest(c) /\ UNCHANGED thrown
       ELSE ThrowAfterLoop(c)
  /\ UNCHANGED <<clientVars, callerVars, lastOutcome, lastError, waits, result,
                 log>>

\* makeRequest is called directly
Call(c) == EnterMakeRequest(c) /\ UNCHANGED <<invoked, requests, serviceResult>>

\* The transport settles the attempt with outcome o: return response.data, or
\* the catch block.
SettleCall(c, o) ==
  /\ pc[c] = "awaiting"
  /\ lastOutcome' = [lastOutcome EXCEPT ![c] = o]
  /\ IF o.ok
       THEN /\ pc' = [pc EXCEPT ![c] = "returned"]
            /\ result' = [result EXCEPT ![c] = ResponseData(o)]
            /\ UNCHANGED <<lastError, waits, thrown>>
       ELSE LET err == CatchError(lastError[c], o)
            IN  /\ lastError' = StoreLastError(lastError, c, err)
                /\ result' = result
                /\ IF RetryRateLimit(err, attempt[c], config)
                     THEN /\ waits' = [waits EXCEPT
                                         ![c] = Append(@, RateLimitDelay(err, config))]
                          /\ pc' = [pc EXCEPT ![c] = "sleeping"]
                          /\ thrown' = thrown
                   ELSE IF RetryNetwork(err, attempt[c], config)
                     THEN /\ waits' = [waits EXCEPT
                                         ![c] = Append(@, BackoffDelay(config, attempt[c]))]
                          /\ pc' = [pc EXCEPT ![c] = "sleeping"]
                          /\ thrown' = thrown
                   ELSE /\ pc' = [pc EXCEPT ![c] = "thrown"]
                        /\ thrown' = [thrown EXCEPT ![c] = err]
                        /\ waits' = waits
  /\ UNCHANGED <<clientVars, callerVars, attempt, issued, sentAuth, firstAuth,
                 sentSetCount, invoked, requests>>

Settle(c, o) == SettleCall(c, o) /\ UNCHANGED <<log, serviceResult>>

\* The same step, with the outcome recorded in the call's log
SettleLogged(c, o) ==
  /\ SettleCall(c, o)
  /\ log' = [log EXCEPT ![c] = Append(@, o)]
  /\ UNCHANGED serviceResult

\* The sleep's timer fires: continue, attempt++, the loop condition, the next
\* request.
Wake(c) ==
  /\ pc[c] = "sleeping"
  /\ attempt' = [attempt EXCEPT ![c] = @ + 1]
  /\ IF LoopCondition(attempt[c] + 1, config)
       THEN IssueRequest(c) /\ UNCHANGED thrown
       ELSE ThrowAfterLoop(c)
  /\ UNCHANGED <<clientVars, callerVars, lastOutcome, lastError, waits, result,
                 log, invoked, requests, serviceResult>>

\* BondMCPClient.setApiKey(apiKey)
setApiKey(apiKey) ==
  /\ setCount < MaxSetKey
  /\ config' = [config EXCEPT !.apiKey = apiKey]
  /\ commonAuth' = Bearer(apiKey)
  /\ setCount' = setCount + 1
  /\ UNCHANGED <<supplied, instanceAuth, callVars, callerVars>>

\* Mutant of GetConfigResult: the configuration object itself is returned
GetConfigResult_Alias(cfg) == [alias |-> TRUE, val |-> cfg]

\* { ...this.config }: a new object with the fields of this.config
GetConfigResult(cfg) == [alias |-> FALSE, val |-> cfg]

\* BondMCPClient.getConfig()
getConfig ==
  /\ snapshot' = GetConfigResult(config)
  /\ UNCHANGED <<clientVars, callVars, env, edits, scriptVars>>

\* What the caller reads in the object getConfig returned
SnapshotView ==
  IF snapshot = Undefined THEN Undefined
  ELSE IF snapshot.alias THEN config ELSE snapshot.val

\* Fields the caller writes in the returned object, and the values written
EditedFields == {"apiKey", "maxRetries"}
EditValue(f) == IF f = "apiKey" THEN Str("kx") ELSE 0

\* The caller writes field f of the object getConfig returned: the write
\* lands in this.config when that object is this.config itself.
EditSnapshot(f) ==
  /\ snapshot # Undefined
  /\ edits < MaxEdits
  /\ edits' = edits + 1
  /\ IF snapshot.alias
       THEN /\ config' = [config EXCEPT ![f] = EditValue(f)]
            /\ snapshot' = snapshot
       ELSE /\ snapshot' = [snapshot EXCEPT !.val[f] = EditValue(f)]
            /\ config' = config
  /\ UNCHANGED <<supplied, instanceAuth, commonAuth, setCount, callVars, env,
                 scriptVars>>

\* -------------------------------------------------------- resource services
DefaultLimit == 20

Operations ==
  {"getStatus", "getLiveStatus", "getReadyStatus", "getSummary",
   "createSummary", "getPrescription", "createPrescription", "getProgram",
   "enrollPatient", "searchPapers", "saveResearch", "handleWebhook", "login",
   "refreshToken", "createKey", "listKeys", "revokeKey"}

\* Arguments of an invocation: two strings (identifiers, query, user name,
\* password, token), a body object, the optional notes and the optional limit
Ids == {Str("abc"), Str("p2")}
Notes == {Undefined, Str(""), Str("n")}
Limits == {Undefined, Num(0), Num(5)}
ServiceBodies == {[body |-> "b"]}
ServiceArgs ==
  [id : Ids, other : {Str("p2")}, notes : Notes, limit : Limits,
   body : ServiceBodies]

\* A request descriptor; the endpoint is the sequence of the pieces of the
\* template string, an object is the set of its <<key, value>> pairs.
Descriptor(method, endpoint, data, params) ==
  [method |-> method, endpoint |-> endpoint, data |-> data, params |-> params]

\* Mutant of SaveResearchData: the notes field is always set
SaveResearchData_Always(paperId, notes) ==
  {<<"paper_id", paperId>>, <<"notes", notes>>}

\* const data = { paper_id: paperId }; if (notes) { data.notes = notes; }
SaveResearchData(paperId, notes) ==
  {<<"paper_id", paperId>>}
    \cup (IF Truthy(notes) THEN {<<"notes", notes>>} ELSE {})

\* limit: number = 20
LimitOrDefault(limit) == IF limit = Undefined THEN Num(DefaultLimit) ELSE limit

\* The object literal each service method passes to this.client.makeRequest
ServiceRequest(op, a) ==
  CASE op = "getStatus" ->
         Descriptor("GET", <<"/health">>, Undefined, Undefined)
    [] op = "getLiveStatus" ->
         Descriptor("GET", <<"/health/live">>, Undefined, Undefined)
    [] op = "getReadyStatus" ->
         Descriptor("GET", <<"/health/ready">>, Undefined, Undefined)
    [] op = "getSummary" ->
         Descriptor("GET", <<"/patients/", a.id.str, "/summary">>,
                    Undefined, Undefined)
    [] op = "createSummary" ->
         Descriptor("POST", <<"/patients/summary">>, a.body, Undefined)
    [] op = "getPrescription" ->
         Descriptor("GET", <<"/prescriptions/", a.id.str>>, Undefined,
                    Undefined)
    [] op = "createPrescription" ->
         Descriptor("POST", <<"/prescriptions">>, a.body, Undefined)
    [] op = "getProgram" ->
         Descriptor("GET", <<"/programs/", a.id.str>>, Undefined, Undefined)
    [] op = "enrollPatient" ->
         Descriptor("POST", <<"/programs/", a.id.str, "/enroll">>,
                    {<<"patient_id", a.other>>}, Undefined)
    [] op = "searchPapers" ->
         Descriptor("GET", <<"/research/papers">>, Undefined,
                    {<<"q", a.id>>, <<"limit", LimitOrDefault(a.limit)>>})
    [] op = "saveResearch" ->
         Descriptor("POST", <<"/research/save">>,
                    SaveResearchData(a.id, a.notes), Undefined)
    [] op = "handleWebhook" ->
         Descriptor("POST", <<"/webhooks">>, a.body, Undefined)
    [] op = "login" ->
         Descriptor("POST", <<"/auth/login">>,
                    {<<"username", a.id>>, <<"password", a.other>>}, Undefined)
    [] op = "refreshToken" ->
         Descriptor("POST", <<"/auth/refresh">>,
                    {<<"refresh_token", a.id>>}, Undefined)
    [] op = "createKey" ->
         Descriptor("POST", <<"/api-keys">>,
                    {<<"name", a.id>>, <<"permissions", a.body>>}, Undefined)
    [] op = "listKeys" ->
         Descriptor("GET", <<"/api-keys">>, Undefined, Undefined)
    [] op = "revokeKey" ->
         Descriptor("DELETE", <<"/api-keys/", a.id.str>>, Undefined, Undefined)

\* What the method returns from the payload: response.papers, response.keys,
\* or the payload itself
ServiceResult(op, payload) ==
  CASE op = "searchPapers" -> [field |-> "papers", of |-> payload]
    [] op = "listKeys" -> [field |-> "keys", of |-> payload]
    [] OTHER -> payload

\* A service method is invoked: it builds the descriptor and calls
\* this.client.makeRequest with it.
Invoke(c, op, a) ==
  /\ EnterMakeRequest(c)
  /\ invoked' = [invoked EXCEPT ![c] = [op |-> op, args |-> a]]
  /\ requests' = [requests EXCEPT ![c] = Append(@, ServiceRequest(op, a))]
  /\ UNCHANGED serviceResult

\* The transport settles an attempt of a call a service method made: on a
\* payload the method returns, an error passes through it.
SettleService(c, o) ==
  /\ SettleCall(c, o)
  /\ serviceResult' =
       IF o.ok
         THEN [serviceResult EXCEPT
                 ![c] = ServiceResult(invoked[c].op, ResponseData(o))]
         ELSE serviceResult
  /\ UNCHANGED log

\* ------------------------------------------------------ the API change check
\* A JSON object is the set of its <<key, value>> pairs; the other values of
\* a document are strings and numbers.
Obj(pairs) == [obj |-> pairs]
IsObj(v) == "obj" \in DOMAIN v

\* What the two endpoints may answer
ApiConfigurations ==
  {Obj({<<"version", Str("1")>>}),
   Obj({<<"version", Str("2")>>}),
   Obj({<<"config", Str("x")>>}),
   Str("v1")}

OpenApiSpecs ==
  {Obj({<<"info", Obj({<<"version", Str("1")>>})>>}),
   Obj({<<"info", Obj({<<"version", Str("2")>>})>>}),
   Obj({<<"spec", Obj({<<"spec", Num(3)>>, <<"paths", Num(1)>>})>>})}

RECURSIVE Stringify(_, _)
\* JSON.stringify(value, keys) with an array of keys: of every object, at
\* every depth, only the properties named in keys are written. The text is
\* given as the tree of what is written.
Stringify(value, keys) ==
  IF IsObj(value)
    THEN Obj({<<p[1], Stringify(p[2], keys)>> :
                p \in {q \in value.obj : q[1] \in keys}})
    ELSE value

\* JSON.stringify(value, null, 2): everything is written
StringifyAll(value) == [json |-> value]

\* crypto.createHash('sha256').update(text).digest('hex'), taken to give
\* different digests for different texts
Sha256(text) == [sha256 |-> text]

\* Object.keys(combinedData).sort()
CombinedKeys == {"config", "spec"}

calculateApiHash(cfg, spc) ==
  Sha256(Stringify(Obj({<<"config", cfg>>, <<"spec", spc>>}), CombinedKeys))

\* the content of .api_hash, null when there is no such file
loadPreviousHash == hashFile

\* Mutant of ApiChanged: every run reports a change
ApiChanged_Always(previousHash, currentHash) == TRUE

\* previousHash !== currentHash
ApiChanged(previousHash, currentHash) == previousHash # currentHash

\* A run of main() that fetched cfg and spc
RunCheck(cfg, spc) ==
  LET currentHash == calculateApiHash(cfg, spc)
      previousHash == loadPreviousHash
  IN  /\ runs < MaxRuns
      /\ runs' = runs + 1
      /\ fetched' = [config |-> cfg, spec |-> spc]
      /\ IF ApiChanged(previousHash, currentHash)
           THEN /\ hashFile' = currentHash
                /\ apiChanged' = Str("true")
                /\ apiConfigFile' = StringifyAll(cfg)
                /\ openapiSpecFile' = StringifyAll(spc)
           ELSE /\ apiChanged' = Str("false")
                /\ UNCHANGED <<hashFile, apiConfigFile, openapiSpecFile>>
      /\ UNCHANGED <<clientVars, callVars, env, snapshot, edits>>

\* A run of main() in which a fetch fails: process.exit(1)
FetchFails ==
  /\ runs < MaxRuns
  /\ runs' = runs + 1
  /\ apiChanged' = Undefined
  /\ UNCHANGED <<clientVars, callVars, env, snapshot, edits, hashFile,
                 apiConfigFile, openapiSpecFile, fetched>>

Next ==
  \/ \E c \in Calls : Call(c)
  \/ \E c \in Calls : \E o \in Outcomes : Settle(c, o)
  \/ \E c \in Calls : Wake(c)
  \/ \E t \in Tokens : setApiKey(t)

Spec == Init /\ [][Next]_vars

\* ---------------------------------------- the client and its configuration
\* Construction from every kind of supplied value, a caller that reads and
\* edits the object getConfig returns, and requests against a transport that
\* answers, refuses the connection or answers 404.
ConfigOutcomes ==
  Successes
    \cup {o \in NoResponseErrors : o.code = "ECONNREFUSED"}
    \cup {StatusError(404, [message |-> "not found"], Undefined)}

InitConfig ==
  InitFrom({1}, AllSuppliedKeys, SuppliedRetries, AllSuppliedDelays,
           AllSuppliedTimeouts, EnvKeys)

NextConfig ==
  \/ \E c \in Calls : Call(c)
  \/ \E c \in Calls : \E o \in ConfigOutcomes : Settle(c, o)
  \/ \E c \in Calls : Wake(c)
  \/ \E t \in Tokens : setApiKey(t)
  \/ getConfig
  \/ \E f \in EditedFields : EditSnapshot(f)

SpecConfig == InitConfig /\ [][NextConfig]_vars

\* ------------------------------------------------------ two calls at once
\* Two makeRequest calls in flight on one client, each attempt's outcome
\* recorded, against a transport with one outcome of each class.
PairOutcomes ==
  Successes
    \cup {o \in NoResponseErrors : o.code = "ETIMEDOUT"}
    \cup {StatusError(404, [message |-> "not found"], Undefined),
          StatusError(429, NoMessageBody, Chars(<<"2">>))}

PairRetries == {Num(n) : n \in 1 .. MaxPairRetries}

InitPair ==
  InitFrom({1, 2}, {Undefined}, PairRetries, {Undefined}, {Undefined},
           {Undefined})

NextPair ==
  \/ \E c \in Calls : Call(c)
  \/ \E c \in Calls : \E o \in PairOutcomes : SettleLogged(c, o)
  \/ \E c \in Calls : Wake(c)
  \/ \E t \in Tokens : setApiKey(t)

SpecPair == InitPair /\ [][NextPair]_vars

\* ------------------------------------------------- a call under fair steps
\* One call against a transport that answers, refuses the connection, times
\* out, or answers 404, 500 or 429 (with and without Retry-After), where every
\* attempt is settled in the end and every timer fires in the end.
LiveOutcomes ==
  Successes
    \cup {e \in NoResponseErrors : e.code \in {"ECONNREFUSED", "ETIMEDOUT"}}
    \cup {StatusError(s, Undefined, Undefined) : s \in {404, 429, 500}}
    \cup {StatusError(429, Undefined, Chars(<<"2">>))}

NextLive ==
  \/ \E c \in Calls : Call(c)
  \/ \E c \in Calls : \E o \in LiveOutcomes : Settle(c, o)
  \/ \E c \in Calls : Wake(c)

Fairness ==
  \A c \in Calls :
    /\ WF_vars(\E o \in LiveOutcomes : Settle(c, o))
    /\ WF_vars(Wake(c))

SpecLive == Init /\ [][NextLive]_vars /\ Fairness

\* --------------------------------------------- a call with recorded attempts
\* One call against the same transport, each outcome recorded in the log.
NextBudget ==
  \/ \E c \in Calls : Call(c)
  \/ \E c \in Calls : \E o \in LiveOutcomes : SettleLogged(c, o)
  \/ \E c \in Calls : Wake(c)

SpecBudget == Init /\ [][NextBudget]_vars

\* ------------------------------------------------ runs of the change check
InitScript ==
  InitFrom({}, {Undefined}, {Undefined}, {Undefined}, {Undefined}, {Undefined})

NextScript ==
  \/ \E cfg \in ApiConfigurations : \E spc \in OpenApiSpecs : RunCheck(cfg, spc)
  \/ FetchFails

SpecScript == InitScript /\ [][NextScript]_vars

\* ------------------------------------------ calls made through the services
\* Every operation of every service with every argument, against a transport
\* that answers, refuses the connection, or answers 404 or 429.
ServiceOutcomes ==
  Successes
    \cup {e \in NoResponseErrors : e.code = "ECONNREFUSED"}
    \cup {StatusError(404, Undefined, Undefined),
          StatusError(429, Undefined, Undefined)}

InitService ==
  InitFrom({1}, {Undefined}, {Undefined, Num(1)}, {Undefined}, {Undefined},
           {Undefined})

NextService ==
  \/ \E c \in Calls : \E op \in Operations : \E a \in ServiceArgs :
       Invoke(c, op, a)
  \/ \E c \in Calls : \E o \in ServiceOutcomes : SettleService(c, o)
  \/ \E c \in Calls : Wake(c)

SpecService == InitService /\ [][NextService]_vars

\* ----------------------------------------------------------------- claims
Last(seq) == seq[Len(seq)]

\* A call whose latest attempt was rejected with an HTTP response
RejectedWithResponse(c) ==
  /\ lastOutcome[c] # Undefined
  /\ ~lastOutcome[c].ok
  /\ lastOutcome[c].response # Undefined

\* A call whose latest attempt was rejected without a response
RejectedWithoutResponse(c) ==
  /\ lastOutcome[c] # Undefined
  /\ ~lastOutcome[c].ok
  /\ lastOutcome[c].response = Undefined

\* A header made of decimal digits only, and its value
IsDecimal(h) ==
  /\ h # Undefined
  /\ h.chars # <<>>
  /\ \A i \in 1 .. Len(h.chars) : h.chars[i] \in DigitChars
DecimalValue(h) == DigitsValue(h.chars, 0)

\* C1: a client constructed with maximum retry count n >= 0 (n = 0 included)
\* issues at most n + 1 HTTP attempts in one makeRequest call.
C1_AttemptsBoundedBySuppliedCount ==
  \A c \in Calls :
    (supplied.maxRetries # Undefined /\ supplied.maxRetries.num >= 0)
      => issued[c] <= supplied.maxRetries.num + 1

\* C2: the error mapped from an HTTP response of status s is Authentication
\* for 401, Authorization for 403, NotFound for 404, Validation for 422,
\* RateLimit for 429, Server for s >= 500 and the base error otherwise, and
\* its statusCode is s.
C2_StatusMapping ==
  \A c \in Calls :
    RejectedWithResponse(c) =>
      LET s == lastOutcome[c].response.status
          e == lastError[c]
      IN  /\ e.statusCode = Num(s)
          /\ (s = 401 => e.kind = "AuthenticationError")
          /\ (s = 403 => e.kind = "AuthorizationError")
          /\ (s = 404 => e.kind = "NotFoundError")
          /\ (s = 422 => e.kind = "ValidationError")
          /\ (s = 429 => e.kind = "RateLimitError")
          /\ (s >= 500 => e.kind = "ServerError")
          /\ (s \notin {401, 403, 404, 422, 429} /\ s < 500
                => e.kind = "BondMCPError")

C2_Witness ==
  \E c \in Calls :
    /\ RejectedWithResponse(c)
    /\ lastOutcome[c].response.status = 500
    /\ pc[c] = "thrown"
    /\ thrown[c].kind = "ServerError"

NonTransientKinds ==
  {"AuthenticationError", "AuthorizationError", "NotFoundError",
   "ValidationError", "ServerError", "BondMCPError"}

\* C3: when the first attempt fails with a non-transient error, the call
\* throws that error after exactly one HTTP attempt and no wait.
C3_NonTransientFirstFailure ==
  \A c \in Calls :
    (attempt[c] = 0 /\ lastError[c] # Undefined
       /\ lastError[c].kind \in NonTransientKinds)
      => /\ pc[c] = "thrown"
         /\ thrown[c] = lastError[c]
         /\ issued[c] = 1
         /\ waits[c] = <<>>

C3_Witness ==
  \E c \in Calls :
    /\ pc[c] = "thrown"
    /\ thrown[c] # Undefined
    /\ thrown[c].kind = "ServerError"
    /\ issued[c] = 1
    /\ config.maxRetries = DefaultMaxRetries

\* C4: after an HTTP 429 with attempts remaining the call waits the
\* Retry-After seconds times 1000 whenever the header is present and the base
\* retry delay only when it is absent; when it finally throws the RateLimit
\* error no attempt remains and retryAfter is the header seconds times 1000.
C4_RateLimitWait ==
  \A c \in Calls :
    (RejectedWithResponse(c) /\ lastOutcome[c].response.status = 429)
      => LET h == lastOutcome[c].response.retryAfterHeader
         IN  /\ pc[c] = "sleeping" /\ IsDecimal(h)
                  => Last(waits[c]) = DecimalValue(h) * 1000
             /\ pc[c] = "sleeping" /\ h = Undefined
                  => Last(waits[c]) = config.retryDelay
             /\ pc[c] = "thrown" /\ IsDecimal(h)
                  => /\ attempt[c] = config.maxRetries
                     /\ thrown[c].retryAfter = Num(DecimalValue(h) * 1000)

\* C5: retryAfter of a RateLimit error is the Retry-After seconds times 1000
\* when the header is a number, and 0 when the header is absent or cannot be
\* parsed as a number.
C5_RetryAfterParsed ==
  \A c \in Calls :
    (RejectedWithResponse(c) /\ lastOutcome[c].response.status = 429)
      => LET h == lastOutcome[c].response.retryAfterHeader
         IN  /\ IsDecimal(h)
                  => lastError[c].retryAfter = Num(DecimalValue(h) * 1000)
             /\ (h = Undefined \/ DigitPrefix(StripLeadingSpace(
                                     IF h = Undefined THEN <<>> ELSE h.chars)) = <<>>)
                  /\ (h = Undefined \/ h.chars = <<>> \/ Head(h.chars) \notin {"-", "+"})
                  => lastError[c].retryAfter = Num(0)

\* C6: when attempt n fails with a Network or Timeout error and
\* n < maxRetries, the call waits retryDelay * 2^n and then issues attempt
\* n + 1; when n = maxRetries it throws without waiting.
C6_ExponentialBackoff ==
  \A c \in Calls :
    RejectedWithoutResponse(c) =>
      /\ lastError[c].kind \in {"NetworkError", "TimeoutError"}
      /\ pc[c] \in {"sleeping", "awaiting", "thrown"}
      /\ pc[c] = "sleeping"
           => /\ attempt[c] < config.maxRetries
              /\ Len(waits[c]) = attempt[c] + 1
              /\ Last(waits[c]) = config.retryDelay * Pow(2, attempt[c])
              /\ issued[c] = attempt[c] + 1
      /\ pc[c] = "awaiting"
           => /\ attempt[c] <= config.maxRetries
              /\ Len(waits[c]) = attempt[c]
              /\ Last(waits[c]) = config.retryDelay * Pow(2, attempt[c] - 1)
              /\ issued[c] = attempt[c] + 1
      /\ pc[c] = "thrown"
           => /\ attempt[c] = config.maxRetries
              /\ Len(waits[c]) = attempt[c]
              /\ issued[c] = attempt[c] + 1
              /\ thrown[c] = lastError[c]

C6_Witness ==
  \E c \in Calls :
    /\ RejectedWithoutResponse(c)
    /\ pc[c] = "sleeping"
    /\ attempt[c] = 2
    /\ config.retryDelay = 250
    /\ Last(waits[c]) = 1000

\* C7: when a call ends because its attempts are exhausted, the error thrown
\* is the one mapped from the last attempt's failure.
C7_LastErrorPropagates ==
  \A c \in Calls :
    (pc[c] = "thrown" /\ lastOutcome[c] # Undefined
       /\ attempt[c] >= config.maxRetries)
      => thrown[c] = handleError(lastOutcome[c])

C7_Witness ==
  \E c \in Calls :
    /\ pc[c] = "thrown"
    /\ attempt[c] = DefaultMaxRetries
    /\ config.maxRetries = DefaultMaxRetries
    /\ Len(waits[c]) = DefaultMaxRetries
    /\ waits[c][1] = 2000
    /\ thrown[c] # Undefined
    /\ thrown[c].kind = "TimeoutError"

\* C8: every makeRequest call that does not return a payload throws an
\* instance of the typed error hierarchy, never an undefined or untyped value.
C8_ThrowsTypedError ==
  \A c \in Calls :
    pc[c] = "thrown" => (thrown[c] # Undefined /\ thrown[c].kind \in ErrorKinds)

\* C9: after setApiKey(t), the configuration holds t and every HTTP attempt
\* issued afterwards carries the authorization header Bearer t.
C9_SetApiKeyTakesEffect ==
  \A c \in Calls :
    (issued[c] > 0 /\ setCount > 0 /\ sentSetCount[c] = setCount)
      => sentAuth[c] = Bearer(config.apiKey)

\* C10 as stated: every attempt of a call, retries issued after a setApiKey
\* included, carries the credential the call started with.
C10_InFlightCallUnaffected ==
  \A c \in Calls : issued[c] > 0 => sentAuth[c] = firstAuth[c]

\* C10 as amended: an attempt carries what the instance defaults hold when it
\* is issued, also when it is a retry of a call that began before a setApiKey:
\* the credential given at construction if there was one, otherwise the token
\* of the latest setApiKey made before the attempt left (none before the
\* first setApiKey).
C10_AttemptCarriesDefaultsAtIssue ==
  \A c \in Calls :
    (issued[c] > 0 /\ sentSetCount[c] = setCount)
      => sentAuth[c] =
           IF Truthy(supplied.apiKey) THEN Bearer(supplied.apiKey)
           ELSE IF setCount = 0 THEN Undefined
           ELSE Bearer(config.apiKey)

C10_Witness ==
  \E c \in Calls :
    /\ issued[c] >= 2
    /\ sentSetCount[c] = setCount
    /\ setCount > 0
    /\ firstAuth[c] = Undefined
    /\ sentAuth[c] = Bearer(Str("k2"))

\* C11: outgoing requests carry a bearer authorization header if and only if
\* the configured credential is non-empty; a client whose credential is empty
\* sends no authorization header.
C11_BearerIffCredential ==
  \A c \in Calls :
    (issued[c] > 0 /\ sentSetCount[c] = setCount)
      => (sentAuth[c] # Undefined <=> Truthy(config.apiKey))

\* C12: writing a field of the object getConfig returned changes neither the
\* client's configuration nor the headers of later requests, and a setApiKey
\* made after getConfig does not change what that object holds.
C12_SnapshotIsolated ==
  [][/\ edits' # edits
          => /\ config' = config
             /\ instanceAuth' = instanceAuth
             /\ commonAuth' = commonAuth
     /\ (setCount' # setCount /\ snapshot # Undefined)
          => SnapshotView' = SnapshotView]_vars

C12_Witness ==
  /\ snapshot # Undefined
  /\ edits > 0
  /\ setCount > 0
  /\ SnapshotView.apiKey = Str("kx")
  /\ config.apiKey = Str("k2")
  /\ \E c \in Calls : issued[c] > 0 /\ sentSetCount[c] = setCount

\* C13: when an attempt succeeds the call returns that response's payload,
\* having made one wait per failed attempt, and afterwards issues no attempt
\* and makes no wait.
C13_SuccessEndsCall ==
  [][\A c \in Calls :
       /\ pc'[c] = "returned"
            => /\ lastOutcome'[c].ok
               /\ result'[c] = Str(lastOutcome'[c].data)
               /\ thrown'[c] = Undefined
               /\ issued'[c] = attempt'[c] + 1
               /\ Len(waits'[c]) = attempt'[c]
       /\ pc[c] = "returned"
            => /\ pc'[c] = "returned"
               /\ issued'[c] = issued[c]
               /\ waits'[c] = waits[c]
               /\ result'[c] = result[c]]_vars

C13_Witness ==
  \E c \in Calls :
    /\ pc[c] = "returned"
    /\ issued[c] = 2
    /\ waits[c] = <<config.retryDelay>>
    /\ lastError[c] # Undefined
    /\ lastError[c].kind = "NetworkError"
    /\ setCount > 0

\* C14 as stated: an error mapped from an HTTP response carries the response
\* body as responseData; its message is the body's message field whenever the
\* body has one and HTTP <status> only when the body has none.
C14_MessageFromBody ==
  \A c \in Calls :
    RejectedWithResponse(c) =>
      LET r == lastOutcome[c].response
          hasMessage == r.data # Undefined /\ "message" \in DOMAIN r.data
      IN  /\ lastError[c].responseData = r.data
          /\ hasMessage => lastError[c].message = Str(r.data.message)
          /\ ~hasMessage => lastError[c].message = HttpMessage(r.status)

\* C14 as amended: the error carries the response body as responseData; its
\* message is the body's message field when the body has a non-empty one, and
\* HTTP <status> when the body is absent, has no message field or has an
\* empty one.
C14_NonEmptyMessageFromBody ==
  \A c \in Calls :
    RejectedWithResponse(c) =>
      LET r == lastOutcome[c].response
          hasText == /\ r.data # Undefined
                     /\ "message" \in DOMAIN r.data
                     /\ r.data.message # ""
      IN  /\ lastError[c].responseData = r.data
          /\ hasText => lastError[c].message = Str(r.data.message)
          /\ ~hasText => lastError[c].message = HttpMessage(r.status)

C14_Witness ==
  \E c \in Calls :
    /\ RejectedWithResponse(c)
    /\ lastOutcome[c].response.data = [message |-> ""]
    /\ pc[c] = "thrown"
    /\ thrown[c].message = HttpMessage(404)

\* C15: a failure without a response is a Timeout exactly when the signal is
\* connection-aborted or timed-out and a Network error otherwise, and carries
\* no status code.
C15_NoResponseClassification ==
  \A c \in Calls :
    RejectedWithoutResponse(c) =>
      /\ lastError[c].kind =
           IF lastOutcome[c].code \in {"ECONNABORTED", "ETIMEDOUT"}
             THEN "TimeoutError" ELSE "NetworkError"
      /\ lastError[c].statusCode = Undefined

C15_Witness ==
  \E c \in Calls :
    /\ RejectedWithoutResponse(c)
    /\ lastOutcome[c].code = "ECONNABORTED"
    /\ pc[c] = "thrown"
    /\ thrown[c].kind = "TimeoutError"

\* C16: classification depends on the transport's signal and response only:
\* two calls whose latest attempts were settled alike hold errors of the same
\* kind, status code and retryAfter, whatever their attempt indexes and the
\* credentials their requests carried.
C16_ClassificationDeterministic ==
  \A c, d \in Calls :
    (lastOutcome[c] # Undefined /\ lastOutcome[c] = lastOutcome[d]
       /\ ~lastOutcome[c].ok)
      => /\ lastError[c].kind = lastError[d].kind
         /\ lastError[c].statusCode = lastError[d].statusCode
         /\ lastError[c].retryAfter = lastError[d].retryAfter

C16_Witness ==
  \E c, d \in Calls :
    /\ lastOutcome[c] # Undefined
    /\ lastOutcome[c] = lastOutcome[d]
    /\ ~lastOutcome[c].ok
    /\ attempt[c] # attempt[d]
    /\ sentAuth[c] # sentAuth[d]
    /\ log[c][1] # log[d][1]

\* A makeRequest call run alone under configuration cfg: where it stands when
\* its attempts have been settled with the outcomes of os, in order.
AloneStart(cfg) ==
  IF 0 <= cfg.maxRetries
    THEN [pc |-> "awaiting", attempt |-> 0, issued |-> 1, waits |-> <<>>,
          lastError |-> Undefined, thrown |-> Undefined, result |-> Undefined]
    ELSE [pc |-> "thrown", attempt |-> 0, issued |-> 0, waits |-> <<>>,
          lastError |-> Undefined, thrown |-> Undefined, result |-> Undefined]

AloneWake(st) ==
  IF st.pc = "sleeping"
    THEN [st EXCEPT !.pc = "awaiting", !.attempt = @ + 1, !.issued = @ + 1]
    ELSE st

AloneSettle(st, o, cfg) ==
  IF o.ok THEN [st EXCEPT !.pc = "returned", !.result = Str(o.data)]
  ELSE LET e == handleError(o)
       IN  IF e.kind = "RateLimitError" /\ st.attempt < cfg.maxRetries
             THEN [st EXCEPT !.pc = "sleeping", !.lastError = e,
                     !.waits = Append(@, IF e.retryAfter \in {Undefined, NaN, Num(0)}
                                           THEN cfg.retryDelay
                                           ELSE e.retryAfter.num)]
           ELSE IF e.kind \in {"NetworkError", "TimeoutError"}
                     /\ st.attempt < cfg.maxRetries
             THEN [st EXCEPT !.pc = "sleeping", !.lastError = e,
                     !.waits = Append(@, cfg.retryDelay * Pow(2, st.attempt))]
           ELSE [st EXCEPT !.pc = "thrown", !.lastError = e, !.thrown = e]

RECURSIVE RunAlone(_, _)
RunAlone(cfg, os) ==
  IF os = <<>> THEN AloneStart(cfg)
  ELSE AloneSettle(AloneWake(RunAlone(cfg, SubSeq(os, 1, Len(os) - 1))),
                   Last(os), cfg)

CallState(c) ==
  [pc |-> pc[c], attempt |-> attempt[c], issued |-> issued[c],
   waits |-> waits[c], lastError |-> lastError[c], thrown |-> thrown[c],
   result |-> result[c]]

\* C17: concurrent calls are independent: whatever the interleaving, a call's
\* counter, last error, attempts, waits and outcome are those of the same call
\* run alone against the responses it received, and no makeRequest step writes
\* the client configuration.
C17_CallsIndependent ==
  /\ setCount = 0 => config = Constructor(supplied)
  /\ \A c \in Calls :
       pc[c] \notin {"off", "idle"}
         => LET alone == RunAlone(config, log[c])
            IN  CallState(c) = alone \/ CallState(c) = AloneWake(alone)

C17_Witness ==
  \E c, d \in Calls :
    /\ c # d
    /\ Len(log[c]) = 2
    /\ Len(log[d]) = 1
    /\ pc[c] = "sleeping"
    /\ pc[d] = "sleeping"
    /\ lastError[c].kind # lastError[d].kind
    /\ log[c][1] = log[d][1]

\* A rejection with HTTP 429 and no Retry-After header
RateLimitedNoHeader(o) ==
  /\ o # Undefined
  /\ ~o.ok
  /\ o.response # Undefined
  /\ o.response.status = 429
  /\ o.response.retryAfterHeader = Undefined

\* C18: when a call is answered 429 without a Retry-After header again and
\* again, each wait before a retry is twice the previous one.
C18_RateLimitBackoffGrows ==
  [][\A c \in Calls :
       (RateLimitedNoHeader(lastOutcome[c]) /\ pc[c] = "awaiting"
          /\ RateLimitedNoHeader(lastOutcome'[c]) /\ pc'[c] = "sleeping")
         => Last(waits'[c]) = 2 * Last(waits[c])]_vars

\* C19: getConfig returns every supplied timeout, maxRetries and retryDelay as
\* given; the defaults stand in for omitted fields only.
C19_SuppliedValuesKept ==
  (snapshot # Undefined /\ edits = 0)
    => \A f \in {"timeout", "maxRetries", "retryDelay"} :
         supplied[f] # Undefined => Num(SnapshotView[f]) = supplied[f]

\* C20: a client constructed without an apiKey while BONDMCP_API_KEY is set
\* uses the variable's value as its credential, in getConfig().apiKey and as
\* the bearer token of its requests.
C20_EnvironmentKeyUsed ==
  (supplied.apiKey = Undefined /\ env # Undefined /\ setCount = 0)
    => /\ config.apiKey = env
       /\ \A c \in Calls : issued[c] > 0 => sentAuth[c] = Bearer(env)

\* The HTTP surface as listed: the method of each operation and its path,
\* with the identifier of the invocation in the place of {id}
ListedMethod(op) ==
  CASE op \in {"getStatus", "getLiveStatus", "getReadyStatus", "getSummary",
               "getPrescription", "getProgram", "searchPapers", "listKeys"}
         -> "GET"
    [] op = "revokeKey" -> "DELETE"
    [] OTHER -> "POST"

ListedPath(op, id) ==
  CASE op = "getStatus" -> <<"/health">>
    [] op = "getLiveStatus" -> <<"/health/live">>
    [] op = "getReadyStatus" -> <<"/health/ready">>
    [] op = "getSummary" -> <<"/patients/", id, "/summary">>
    [] op = "createSummary" -> <<"/patients/summary">>
    [] op = "getPrescription" -> <<"/prescriptions/", id>>
    [] op = "createPrescription" -> <<"/prescriptions">>
    [] op = "getProgram" -> <<"/programs/", id>>
    [] op = "enrollPatient" -> <<"/programs/", id, "/enroll">>
    [] op = "searchPapers" -> <<"/research/papers">>
    [] op = "saveResearch" -> <<"/research/save">>
    [] op = "handleWebhook" -> <<"/webhooks">>
    [] op = "login" -> <<"/auth/login">>
    [] op = "refreshToken" -> <<"/auth/refresh">>
    [] op \in {"createKey", "listKeys"} -> <<"/api-keys">>
    [] op = "revokeKey" -> <<"/api-keys/", id>>

\* C21: an invoked service operation has handed makeRequest exactly one
\* descriptor, however many attempts and waits the call made since; the
\* descriptor has the method and the path listed for the operation with the
\* invocation's identifier substituted, and the optional notes field is in
\* the body only when notes were supplied. The call's course is that of
\* makeRequest: what the operation throws is the error makeRequest threw.
C21_OneDescriptorPerInvocation ==
  \A c \in Calls :
    IF invoked[c] = Undefined
      THEN requests[c] = <<>>
      ELSE LET op == invoked[c].op
               a == invoked[c].args
           IN  /\ Len(requests[c]) = 1
               /\ requests[c][1].method = ListedMethod(op)
               /\ requests[c][1].endpoint = ListedPath(op, a.id.str)
               /\ (op = "saveResearch" /\ a.notes = Undefined)
                    => requests[c][1].data = {<<"paper_id", a.id>>}
               /\ (op = "searchPapers")
                    => \E l \in Limits \cup {Num(DefaultLimit)} :
                         requests[c][1].params = {<<"q", a.id>>, <<"limit", l>>}
               /\ pc[c] = "thrown" => thrown[c] = lastError[c]

C21_Witness ==
  \E c \in Calls :
    /\ invoked[c] # Undefined
    /\ invoked[c].op = "saveResearch"
    /\ invoked[c].args.notes = Str("n")
    /\ requests[c][1].data = {<<"paper_id", Str("abc")>>, <<"notes", Str("n")>>}
    /\ issued[c] = 2
    /\ pc[c] = "returned"
\* C22: a call that has been made ends, returned or thrown, whatever the
\* transport answers, given that each attempt is settled and each timer
\* fires; it never makes more attempts than maxRetries + 1.
C22_CallTerminates ==
  \A c \in Calls :
    /\ [](issued[c] <= config.maxRetries + 1)
    /\ (pc[c] \in {"awaiting", "sleeping"}) ~> (pc[c] \in {"returned", "thrown"})

C22_Witness ==
  \E c \in Calls :
    /\ pc[c] = "thrown"
    /\ thrown[c] # Undefined
    /\ thrown[c].kind = "RateLimitError"
    /\ config.maxRetries = DefaultMaxRetries
    /\ issued[c] = DefaultMaxRetries + 1
    /\ Len(waits[c]) = DefaultMaxRetries
\* C23: whatever mix of rate-limit, network and timeout failures a call has
\* met, it has made at most maxRetries + 1 attempts, and the wait after a
\* network or timeout failure is retryDelay * 2^n where n is the zero-based
\* index of the failed attempt among all attempts of the call.
C23_SharedRetryBudget ==
  \A c \in Calls :
    /\ Len(log[c]) <= config.maxRetries + 1
    /\ issued[c] <= config.maxRetries + 1
    /\ (/\ pc[c] = "sleeping"
        /\ lastError[c].kind \in {"NetworkError", "TimeoutError"})
         => Last(waits[c]) = config.retryDelay * Pow(2, Len(log[c]) - 1)

C23_Witness ==
  \E c \in Calls :
    /\ pc[c] = "sleeping"
    /\ Len(log[c]) = 3
    /\ log[c][1] = StatusError(429, Undefined, Undefined)
    /\ ~log[c][2].ok /\ log[c][2].code = "ECONNREFUSED"
    /\ ~log[c][3].ok /\ log[c][3].code = "ETIMEDOUT"
    /\ config.retryDelay = 250
    /\ waits[c] = <<250, 500, 1000>>
\* C24: attempts and waits of a call alternate. An attempt is issued either
\* first, before any wait, or when the wait that followed the previous attempt
\* is over, so that as many waits as attempts lie behind it; a wait begins only
\* on the transient failure of an attempt that is not the last permitted one,
\* and is the only wait since that attempt.
C24_AttemptsAndWaitsAlternate ==
  [][\A c \in Calls :
       /\ issued'[c] # issued[c]
            => /\ issued'[c] = issued[c] + 1
               /\ Len(waits[c]) = issued[c]
               /\ waits'[c] = waits[c]
               /\ pc[c] = IF issued[c] = 0 THEN "idle" ELSE "sleeping"
               /\ pc'[c] = "awaiting"
       /\ waits'[c] # waits[c]
            => /\ Len(waits'[c]) = Len(waits[c]) + 1
               /\ Len(waits'[c]) = issued[c]
               /\ pc[c] = "awaiting" /\ pc'[c] = "sleeping"
               /\ ~lastOutcome'[c].ok
               /\ lastError'[c].kind
                    \in {"RateLimitError", "NetworkError", "TimeoutError"}
               /\ issued[c] < config.maxRetries + 1
       /\ pc[c] \in {"returned", "thrown"}
            => issued'[c] = issued[c] /\ waits'[c] = waits[c]
    ]_vars

C24_Witness ==
  \E c \in Calls :
    /\ pc[c] = "thrown"
    /\ issued[c] = 3
    /\ Len(waits[c]) = 2
    /\ config.maxRetries = 3
    /\ thrown[c].kind = "NotFoundError"

\* C25: a call that has ended has issued at least one HTTP attempt.
C25_AtLeastOneAttempt ==
  \A c \in Calls : pc[c] \in {"returned", "thrown"} => issued[c] >= 1
\* A run of the check that fetched both documents has just ended
RunEnded == runs' # runs /\ apiChanged' # Undefined

\* C26: when a run fetches documents that differ from those whose hash the
\* previous runs stored, its hash differs from the stored one and it reports
\* api_changed = true.
C26_ChangeDetected ==
  [][(/\ RunEnded
      /\ hashFile # Undefined
      /\ \/ StringifyAll(fetched'.config) # apiConfigFile
         \/ StringifyAll(fetched'.spec) # openapiSpecFile)
       => /\ calculateApiHash(fetched'.config, fetched'.spec) # hashFile
          /\ apiChanged' = Str("true")
    ]_vars

\* C27: a run without stored hash reports a change and stores the hash of
\* what it fetched; a run that fetched what the run before it fetched reports
\* no change and leaves the three files as they are; the stored hash is
\* replaced, by the hash of what the run fetched, exactly when the run
\* reports a change.
C27_StoredHashFollowsChanges ==
  [][/\ RunEnded
          => /\ hashFile = Undefined => apiChanged' = Str("true")
             /\ (fetched # Undefined /\ fetched' = fetched)
                  => /\ apiChanged' = Str("false")
                     /\ UNCHANGED <<hashFile, apiConfigFile, openapiSpecFile>>
             /\ apiChanged' = Str("true")
                  => hashFile' = calculateApiHash(fetched'.config, fetched'.spec)
             /\ apiChanged' # Str("true")
                  => UNCHANGED <<hashFile, apiConfigFile, openapiSpecFile>>
     /\ ~RunEnded => UNCHANGED <<hashFile, apiConfigFile, openapiSpecFile>>
    ]_vars

C27_Witness ==
  /\ runs = 3
  /\ apiChanged = Str("false")
  /\ fetched = [config |-> Str("v1"),
                spec |-> Obj({<<"info", Obj({<<"version", Str("1")>>})>>})]
  /\ hashFile = calculateApiHash(fetched.config, fetched.spec)
  /\ apiConfigFile = StringifyAll(Str("v1"))
====
